---- MODULE Spec2Model ----
(***************************************************************************)
(* Model of scrapping_app.py: the rate-limited source fetch, the scorer,   *)
(* the ranking step and the publish loop of main().                        *)
(*                                                                         *)
(* Time is counted in ticks; DAY ticks stand for the 86400 s window of     *)
(* rate_limited.  Scores are fixed-point tenths (10 is 1.0), so the        *)
(* aggregate 0.5*k + 0.3*c + 0.2*e is 5*k + 3*c + 2*e in hundredths.       *)
(***************************************************************************)
EXTENDS Integers, Sequences, FiniteSets, TLC

\* ------------------------------------------------------------------ bounds
MaxCalls == 2       \* the decorator's max_calls (500 in the app)
DAY == 3            \* ticks in the 24h window
MaxTime == 5        \* last tick of the clock
MaxSearches == 2    \* cap on the number of search operations
MaxArticles == 5    \* longest article list handed to the ranking step
MaxPubArticles == 2 \* most articles on the review page of the publish loop

Runs == {1, 2}
Clients == <<"news", "guardian">>
Platforms == <<"twitter", "bluesky", "linkedin">>
Keys == {"key_score", "credibility_score", "engagement_score"}
\* the article counts a source returns inside a search (pageSize is 10)
FetchCounts == {0, 1}
SecretOf(c) == IF c = "news" THEN "NEWS_API_KEY" ELSE "GUARDIAN_API_KEY"

VARIABLES
  now,              \* time.time()
  API_CALL_LOG,     \* the module-level call log
  secrets,          \* the source keys present in st.secrets
  pc,               \* per run: position in the search operation
  client,           \* per run: index in Clients of the fetch in progress
  tnow,             \* per run: wrapper's local `now`
  filtered,         \* per run: the list built by the comprehension of line 34
  stale,            \* per run: the list loaded for append is no longer the global
  calls,            \* history: one record per wrapper invocation
  callIdx,          \* per run: index in calls of the invocation in progress
  searches,         \* number of search operations started
  fetched,          \* per run: news_articles ++ guardian_articles so far
  all_articles,     \* per run: all_articles of main()
  sidx,             \* per run: position of the scoring loop
  judge_log,        \* per run: history, the judge's response for each article
  session_articles, \* per run: st.session_state.articles (<<>> when unset)
  pub               \* the state of the publish loop (a record)

searchVars == <<now, API_CALL_LOG, secrets, pc, client, tnow, filtered, stale,
                calls, callIdx, searches, fetched, all_articles, sidx,
                judge_log, session_articles>>
vars == <<now, API_CALL_LOG, secrets, pc, client, tnow, filtered, stale,
          calls, callIdx, searches, fetched, all_articles, sidx,
          judge_log, session_articles, pub>>

\* ------------------------------------------------------------ rate_limited
Min(S) == CHOOSE x \in S : \A y \in S : x <= y

\* line 34: [t for t in API_CALL_LOG if now - t < 86400]
Prune(log, t) == SelectSeq(log, LAMBDA x : t - x < DAY)

\* line 36: the call is denied iff len(API_CALL_LOG) >= max_calls
Admits(log) == Len(log) < MaxCalls

NextAvailMut(log) == log[Len(log)] + DAY
\* line 38: API_CALL_LOG[0] + 86400
NextAvail(log) == log[1] + DAY

AfterDenyMut == "func"
\* line 40: st.stop() ends the script run
AfterDeny == "stopped"

\* --------------------------------------------------------------- the judge
Zero == [k \in Keys |-> 0]
NumVals == {-5, 0, 5, 10, 15}
JudgeVals == {[t |-> "missing", v |-> 0], [t |-> "str", v |-> 0]}
               \cup {[t |-> "num", v |-> n] : n \in NumVals}
\* what requests.post / response.json / json.loads can produce
JudgeResponses ==
  {[kind |-> "exc", content |-> [k \in Keys |-> [t |-> "missing", v |-> 0]]],
   [kind |-> "http500", content |-> [k \in Keys |-> [t |-> "missing", v |-> 0]]],
   [kind |-> "garbage", content |-> [k \in Keys |-> [t |-> "missing", v |-> 0]]]}
  \cup {[kind |-> "json", content |-> c] : c \in [Keys -> JudgeVals]}
Triple(k, c, e) ==
  [x \in Keys |-> [t |-> "num",
                   v |-> IF x = "key_score" THEN k
                         ELSE IF x = "credibility_score" THEN c ELSE e]]
\* the responses used inside the search operation
SearchResponses ==
  {[kind |-> "exc", content |-> [k \in Keys |-> [t |-> "missing", v |-> 0]]],
   [kind |-> "json", content |-> Triple(9, 8, 7)]}

\* lines 116-147: ContentScorer.score_article on the judge's response.
\* float(content.get(k, 0)): a missing key gives 0, a number is kept as it
\* is, anything float() cannot convert raises and the bare except returns
\* the all-zero triple.
score_article(resp) ==
  IF resp.kind = "exc" THEN Zero
  ELSE IF resp.kind = "http500" THEN Zero
  ELSE IF resp.kind = "garbage" THEN Zero
  ELSE IF \E k \in Keys : resp.content[k].t = "str" THEN Zero
  ELSE [k \in Keys |-> IF resp.content[k].t = "missing" THEN 0
                       ELSE resp.content[k].v]

\* ------------------------------------------------------------- the ranking
\* lines 263-267: the sort key
Aggregate(a) == 5 * a.scores["key_score"] + 3 * a.scores["credibility_score"]
                  + 2 * a.scores["engagement_score"]

RECURSIVE Insert(_, _)
\* place x after every element whose key is >= its own (stable, descending)
Insert(x, s) ==
  IF s = <<>> THEN <<x>>
  ELSE IF Aggregate(s[1]) >= Aggregate(x) THEN <<s[1]>> \o Insert(x, Tail(s))
  ELSE <<x>> \o s

RECURSIVE InsertAll(_, _)
InsertAll(todo, done) ==
  IF todo = <<>> THEN done
  ELSE InsertAll(Tail(todo), Insert(todo[1], done))

RECURSIVE InsertAsc(_, _)
InsertAsc(x, s) ==
  IF s = <<>> THEN <<x>>
  ELSE IF Aggregate(s[1]) <= Aggregate(x) THEN <<s[1]>> \o InsertAsc(x, Tail(s))
  ELSE <<x>> \o s
RECURSIVE InsertAllAsc(_, _)
InsertAllAsc(todo, done) ==
  IF todo = <<>> THEN done
  ELSE InsertAllAsc(Tail(todo), InsertAsc(todo[1], done))
Reverse(s) == [i \in 1..Len(s) |-> s[Len(s) + 1 - i]]
\* an ascending stable sort, then reversed: ties come out in reverse order
SortedDescMut(s) == Reverse(InsertAllAsc(s, <<>>))
\* lines 261-268: sorted(all_articles, key=..., reverse=True), which is stable
SortedDesc(s) == InsertAll(s, <<>>)

TopN == 4
\* line 269: [:4]
Top(s) == SubSeq(s, 1, IF Len(s) < TopN THEN Len(s) ELSE TopN)

\* ------------------------------------------------------ the search operation
CallRec(r, kind, retry) ==
  [run |-> r, client |-> Clients[client[r]], kind |-> kind, at |-> tnow[r],
   rec |-> -1, retry |-> retry]

NewArticles(c, n, from) ==
  [i \in 1..n |-> [id |-> from + i, source |-> c, scores |-> Zero]]

InitSearch ==
  /\ now = 0
  /\ API_CALL_LOG = <<>>
  /\ secrets \in SUBSET {"NEWS_API_KEY", "GUARDIAN_API_KEY"}
  /\ pc = [r \in Runs |-> "idle"]
  /\ client = [r \in Runs |-> 1]
  /\ tnow = [r \in Runs |-> 0]
  /\ filtered = [r \in Runs |-> <<>>]
  /\ stale = [r \in Runs |-> FALSE]
  /\ calls = <<>>
  /\ callIdx = [r \in Runs |-> 0]
  /\ searches = 0
  /\ fetched = [r \in Runs |-> <<>>]
  /\ all_articles = [r \in Runs |-> <<>>]
  /\ sidx = [r \in Runs |-> 1]
  /\ judge_log = [r \in Runs |-> <<>>]
  /\ session_articles = [r \in Runs |-> <<>>]

\* the clock advances on its own
Tick ==
  /\ now < MaxTime
  /\ now' = now + 1
  /\ UNCHANGED <<API_CALL_LOG, secrets, pc, client, tnow, filtered, stale, calls,
                 callIdx, searches, fetched, all_articles, sidx, judge_log,
                 session_articles, pub>>

\* lines 251-253: the form is submitted, a script run starts the search
Search(r) ==
  /\ pc[r] \in {"idle", "done", "stopped", "crashed"}
  /\ searches < MaxSearches
  /\ searches' = searches + 1
  /\ pc' = [pc EXCEPT ![r] = "now"]
  /\ client' = [client EXCEPT ![r] = 1]
  /\ fetched' = [fetched EXCEPT ![r] = <<>>]
  /\ all_articles' = [all_articles EXCEPT ![r] = <<>>]
  /\ judge_log' = [judge_log EXCEPT ![r] = <<>>]
  /\ sidx' = [sidx EXCEPT ![r] = 1]
  /\ UNCHANGED <<now, API_CALL_LOG, secrets, tnow, filtered, stale, calls,
                 callIdx, session_articles, pub>>

\* lines 33-34: now = time.time() and the comprehension over the global list
WrapperNow(r) ==
  /\ pc[r] = "now"
  /\ tnow' = [tnow EXCEPT ![r] = now]
  /\ filtered' = [filtered EXCEPT ![r] = Prune(API_CALL_LOG, now)]
  /\ pc' = [pc EXCEPT ![r] = "store"]
  /\ UNCHANGED <<now, API_CALL_LOG, secrets, client, stale, calls, callIdx,
                 searches, fetched, all_articles, sidx, judge_log,
                 session_articles, pub>>

\* line 34: the new list is bound to the global name; a list another run
\* has loaded for its append is from now on not the global one
WrapperStore(r) ==
  /\ pc[r] = "store"
  /\ API_CALL_LOG' = filtered[r]
  /\ stale' = [q \in Runs |-> IF q # r /\ pc[q] = "append" THEN TRUE ELSE stale[q]]
  /\ pc' = [pc EXCEPT ![r] = "check"]
  /\ UNCHANGED <<now, secrets, client, tnow, filtered, calls, callIdx, searches,
                 fetched, all_articles, sidx, judge_log, session_articles, pub>>

\* line 36, false: the wrapped fetch is called
WrapperAdmit(r) ==
  /\ pc[r] = "check"
  /\ Admits(API_CALL_LOG)
  /\ calls' = Append(calls, CallRec(r, "running", -1))
  /\ callIdx' = [callIdx EXCEPT ![r] = Len(calls) + 1]
  /\ pc' = [pc EXCEPT ![r] = "func"]
  /\ UNCHANGED <<now, API_CALL_LOG, secrets, client, tnow, filtered, stale,
                 searches, fetched, all_articles, sidx, judge_log,
                 session_articles, pub>>

\* lines 36-40: the limit is reached, st.error reports the next available
\* time and st.stop() ends the run
WrapperDeny(r) ==
  /\ pc[r] = "check"
  /\ ~Admits(API_CALL_LOG)
  /\ calls' = Append(calls, CallRec(r, "denied", NextAvail(API_CALL_LOG)))
  /\ callIdx' = [callIdx EXCEPT ![r] = Len(calls) + 1]
  /\ pc' = [pc EXCEPT ![r] = AfterDeny]
  /\ UNCHANGED <<now, API_CALL_LOG, secrets, client, tnow, filtered, stale,
                 searches, fetched, all_articles, sidx, judge_log,
                 session_articles, pub>>

\* lines 54 and 80: st.secrets[...] is read before the try block; a missing
\* key raises through the wrapper and main(), and the script run ends
FuncRaise(r) ==
  /\ pc[r] = "func"
  /\ SecretOf(Clients[client[r]]) \notin secrets
  /\ calls' = [calls EXCEPT ![callIdx[r]].kind = "raised"]
  /\ pc' = [pc EXCEPT ![r] = "crashed"]
  /\ UNCHANGED <<now, API_CALL_LOG, secrets, client, tnow, filtered, stale,
                 callIdx, searches, fetched, all_articles, sidx, judge_log,
                 session_articles, pub>>

\* lines 60-72 and 85-97: the request; any exception inside the try block
\* gives [] (n = 0), a response gives its n articles
FuncReturn(r) ==
  /\ pc[r] = "func"
  /\ SecretOf(Clients[client[r]]) \in secrets
  /\ \E n \in FetchCounts :
       fetched' = [fetched EXCEPT
                     ![r] = @ \o NewArticles(Clients[client[r]], n, Len(@))]
  /\ pc' = [pc EXCEPT ![r] = "load"]
  /\ UNCHANGED <<now, API_CALL_LOG, secrets, client, tnow, filtered, stale, calls,
                 callIdx, searches, all_articles, sidx, judge_log,
                 session_articles, pub>>

\* line 43: the global list is loaded for the append
WrapperLoad(r) ==
  /\ pc[r] = "load"
  /\ stale' = [stale EXCEPT ![r] = FALSE]
  /\ pc' = [pc EXCEPT ![r] = "append"]
  /\ UNCHANGED <<now, API_CALL_LOG, secrets, client, tnow, filtered, calls,
                 callIdx, searches, fetched, all_articles, sidx, judge_log,
                 session_articles, pub>>

\* line 43: .append(time.time()), then the wrapper returns: to line 254 after
\* the news fetch, to lines 255-258 after the Guardian fetch
WrapperAppend(r) ==
  /\ pc[r] = "append"
  /\ API_CALL_LOG' = IF stale[r] THEN API_CALL_LOG ELSE Append(API_CALL_LOG, now)
  /\ calls' = [calls EXCEPT ![callIdx[r]].kind = "returned",
                            ![callIdx[r]].rec = now]
  /\ IF client[r] < Len(Clients)
       THEN /\ client' = [client EXCEPT ![r] = @ + 1]
            /\ pc' = [pc EXCEPT ![r] = "now"]
            /\ UNCHANGED <<all_articles, sidx>>
       ELSE /\ all_articles' = [all_articles EXCEPT ![r] = fetched[r]]
            /\ sidx' = [sidx EXCEPT ![r] = 1]
            /\ pc' = [pc EXCEPT ![r] = "score"]
            /\ UNCHANGED client
  /\ UNCHANGED <<now, secrets, tnow, filtered, stale, callIdx, searches, fetched,
                 judge_log, session_articles, pub>>

\* lines 258-259: one pass of the scoring loop
Score(r, responses) ==
  /\ pc[r] = "score"
  /\ sidx[r] <= Len(all_articles[r])
  /\ \E resp \in responses :
       /\ all_articles' = [all_articles EXCEPT
                             ![r][sidx[r]].scores = score_article(resp)]
       /\ judge_log' = [judge_log EXCEPT ![r] = Append(@, resp)]
  /\ sidx' = [sidx EXCEPT ![r] = @ + 1]
  /\ UNCHANGED <<now, API_CALL_LOG, secrets, pc, client, tnow, filtered, stale,
                 calls, callIdx, searches, fetched, session_articles, pub>>

\* lines 261-269: the sorted top of the list goes to the session state
Rank(r) ==
  /\ pc[r] = "score"
  /\ sidx[r] > Len(all_articles[r])
  /\ session_articles' = [session_articles EXCEPT
                            ![r] = Top(SortedDesc(all_articles[r]))]
  /\ pc' = [pc EXCEPT ![r] = "done"]
  /\ UNCHANGED <<now, API_CALL_LOG, secrets, client, tnow, filtered, stale, calls,
                 callIdx, searches, fetched, all_articles, sidx, judge_log, pub>>

SearchStep(r) ==
  \/ Search(r)
  \/ WrapperNow(r)
  \/ WrapperStore(r)
  \/ WrapperAdmit(r)
  \/ WrapperDeny(r)
  \/ FuncRaise(r)
  \/ FuncReturn(r)
  \/ WrapperLoad(r)
  \/ WrapperAppend(r)
  \/ Score(r, SearchResponses)
  \/ Rank(r)

\* ---------------------------------------------------------- the publish loop
\* f"{platform}_{idx}"
PostKey(p, idx) == <<Platforms[p], idx>>
PubKeys(n) == {PostKey(p, idx) : p \in 1..Len(Platforms), idx \in 0..(n - 1)}
AllPubKeys == PubKeys(MaxPubArticles)

PubIdle ==
  [pc |-> "idle", n |-> 0, selected_posts |-> <<>>, post_enabled |-> FALSE,
   idx |-> 0, p |-> 1,
   image |-> [k \in AllPubKeys |-> "unread"],
   attempts |-> [k \in AllPubKeys |-> 0],
   shown |-> [k \in AllPubKeys |-> <<>>],
   result |-> [k \in AllPubKeys |-> "none"],
   success_count |-> 0]

\* lines 297-318 and 350-359: the page has n articles, every checkbox has
\* written its value to selected_posts, the approval button was pressed and
\* the toggle has returned post_enabled
PubStart(n, sel, en) ==
  [PubIdle EXCEPT !.pc = "loop", !.n = n, !.selected_posts = sel,
                  !.post_enabled = en]

IsSelectedMut(key) == TRUE
\* line 364: st.session_state.selected_posts.get(post_key, False)
IsSelected(key) ==
  IF key \in DOMAIN pub.selected_posts THEN pub.selected_posts[key] ELSE FALSE

RealPostingMut(en) == TRUE
\* line 368: if post_enabled
RealPosting(en) == en

\* line 387: if image_data
ShowsImage(image_data) == image_data = "bytes"

\* line 365: st.session_state.edited_posts[idx][platform]
ContentOf(key) == [article |-> key[2], platform |-> key[1]]

CurKey == PostKey(pub.p, pub.idx)

\* lines 361-362: the next pass of the two nested loops, or the end
Advance(q) ==
  IF q.p < Len(Platforms) THEN [q EXCEPT !.p = @ + 1]
  ELSE IF q.idx + 1 < q.n THEN [q EXCEPT !.p = 1, !.idx = @ + 1]
  ELSE [q EXCEPT !.pc = "done"]

\* line 364, false: the draft is not selected
PubSkip ==
  /\ pub.pc = "loop"
  /\ ~IsSelected(CurKey)
  /\ pub' = Advance(pub)
  /\ UNCHANGED searchVars

\* lines 365-381, twitter and bluesky: post_to_twitter / post_to_bluesky
\* (lines 181-236) make the platform calls and return True, or catch any
\* exception (credentials, network, media upload) and return False
PubPost ==
  /\ pub.pc = "loop"
  /\ IsSelected(CurKey)
  /\ RealPosting(pub.post_enabled)
  /\ CurKey[1] \in {"twitter", "bluesky"}
  /\ \E image_data \in {"", "bytes"}, success \in BOOLEAN :
       pub' = Advance([pub EXCEPT
                 !.image[CurKey] = image_data,
                 !.attempts[CurKey] = @ + 1,
                 !.result[CurKey] = IF success THEN "ok" ELSE "fail",
                 !.success_count = IF success THEN @ + 1 ELSE @])
  /\ UNCHANGED searchVars

\* lines 374-375: any other platform: continue
PubOther ==
  /\ pub.pc = "loop"
  /\ IsSelected(CurKey)
  /\ RealPosting(pub.post_enabled)
  /\ CurKey[1] \notin {"twitter", "bluesky"}
  /\ \E image_data \in {"", "bytes"} :
       pub' = Advance([pub EXCEPT !.image[CurKey] = image_data])
  /\ UNCHANGED searchVars

\* lines 384-388: the dry run writes the content, and the image if there is one
PubDryRun ==
  /\ pub.pc = "loop"
  /\ IsSelected(CurKey)
  /\ ~RealPosting(pub.post_enabled)
  /\ \E image_data \in {"", "bytes"} :
       pub' = Advance([pub EXCEPT
                 !.image[CurKey] = image_data,
                 !.shown[CurKey] = Append(@, [content |-> ContentOf(CurKey),
                                             image |-> ShowsImage(image_data)]),
                 !.result[CurKey] = "preview"])
  /\ UNCHANGED searchVars

InitPublish ==
  /\ InitSearch
  /\ secrets = {"NEWS_API_KEY", "GUARDIAN_API_KEY"}
  /\ \E n \in 1..MaxPubArticles, en \in BOOLEAN :
       \E sel \in [PubKeys(n) -> BOOLEAN] : pub = PubStart(n, sel, en)
NextPublish == PubSkip \/ PubPost \/ PubOther \/ PubDryRun
SpecPublish == InitPublish /\ [][NextPublish]_vars

\* ------------------------------------------------------- the specifications

Init == InitSearch /\ pub = PubIdle
\* one run after the other: a single session
Next == Tick \/ SearchStep(1)
Spec == Init /\ [][Next]_vars

\* two sessions of the same process share API_CALL_LOG; both source keys are
\* configured, each session runs the fetch part of one search, and the two
\* are near-simultaneous: both happen within one tick of the clock
InitConc == Init /\ secrets = {"NEWS_API_KEY", "GUARDIAN_API_KEY"}
FetchStep(r) ==
  \/ Search(r)
  \/ WrapperNow(r)
  \/ WrapperStore(r)
  \/ WrapperAdmit(r)
  \/ WrapperDeny(r)
  \/ FuncReturn(r)
  \/ WrapperLoad(r)
  \/ WrapperAppend(r)
NextConc == \E r \in Runs : FetchStep(r)
SpecConc == InitConc /\ [][NextConc]_vars

\* the scorer alone: one fetched article, any judge response, then the ranking
InitScore ==
  /\ InitSearch
  /\ secrets = {"NEWS_API_KEY", "GUARDIAN_API_KEY"}
  /\ pub = PubIdle
NextScore ==
  \/ Search(1) \/ WrapperNow(1) \/ WrapperStore(1) \/ WrapperAdmit(1)
  \/ FuncReturn(1) \/ WrapperLoad(1) \/ WrapperAppend(1)
  \/ Score(1, JudgeResponses)
  \/ Rank(1)
SpecScore == InitScore /\ [][NextScore]_vars

\* the ranking step alone: any scored list of up to MaxArticles articles
Palette ==
  {[key_score |-> 9, credibility_score |-> 8, engagement_score |-> 7],
   [key_score |-> 1, credibility_score |-> 1, engagement_score |-> 1],
   [key_score |-> 2, credibility_score |-> 0, engagement_score |-> 0],
   [key_score |-> 0, credibility_score |-> 0, engagement_score |-> 0],
   [key_score |-> -5, credibility_score |-> 0, engagement_score |-> 0]}
RankInputs ==
  UNION {{[i \in 1..n |-> [id |-> i, source |-> "news", scores |-> f[i]]] :
            f \in [1..n -> Palette]} : n \in 0..MaxArticles}
InitRank ==
  /\ now = 0
  /\ API_CALL_LOG = <<>>
  /\ secrets = {"NEWS_API_KEY", "GUARDIAN_API_KEY"}
  /\ \E a \in RankInputs :
       /\ all_articles = [r \in Runs |-> IF r = 1 THEN a ELSE <<>>]
       /\ sidx = [r \in Runs |-> IF r = 1 THEN Len(a) + 1 ELSE 1]
  /\ pc = [r \in Runs |-> IF r = 1 THEN "score" ELSE "idle"]
  /\ client = [r \in Runs |-> 1]
  /\ tnow = [r \in Runs |-> 0]
  /\ filtered = [r \in Runs |-> <<>>]
  /\ stale = [r \in Runs |-> FALSE]
  /\ calls = <<>>
  /\ callIdx = [r \in Runs |-> 0]
  /\ searches = 1
  /\ fetched = [r \in Runs |-> <<>>]
  /\ judge_log = [r \in Runs |-> <<>>]
  /\ session_articles = [r \in Runs |-> <<>>]
  /\ pub = PubIdle
NextRank == Rank(1)
SpecRank == InitRank /\ [][NextRank]_vars

\* ================================================================ the claims
Admitted == {i \in DOMAIN calls : calls[i].kind # "denied"}

\* C1: in a single session, the calls let through by the limiter (the wrapped
\* fetch was called) inside any trailing window of DAY ticks never number
\* more than max_calls.
C1_WindowCeiling ==
  \A i \in Admitted :
    Cardinality({j \in Admitted : j <= i /\ calls[i].at - calls[j].at < DAY})
      <= MaxCalls

\* C2: with two sessions sharing the log, admissions are atomic: the log never
\* holds more than max_calls timestamps of one trailing window.
C2_AtomicAdmission ==
  \A i \in DOMAIN API_CALL_LOG :
    Cardinality({j \in DOMAIN API_CALL_LOG :
                   /\ API_CALL_LOG[j] <= API_CALL_LOG[i]
                   /\ API_CALL_LOG[i] - API_CALL_LOG[j] < DAY}) <= MaxCalls

\* the timestamps recorded before call i that are less than DAY old at its check
Retained(i) ==
  {calls[j].rec : j \in {j \in 1..(i - 1) : /\ calls[j].kind = "returned"
                                             /\ calls[i].at - calls[j].rec < DAY}}

DenyStep(r) ==
  /\ Len(calls') = Len(calls) + 1
  /\ calls'[Len(calls')].kind = "denied"
  /\ calls'[Len(calls')].run = r

\* C4: the step that denies a call ends the run: the wrapped fetch is not
\* called, the log gets no timestamp, nothing is fetched or scored, and from
\* the stopped run nothing happens but a new search.
C4_DenialTerminal ==
  [][\A r \in Runs :
       /\ DenyStep(r) =>
            /\ pc'[r] = "stopped"
            /\ API_CALL_LOG' = API_CALL_LOG
            /\ fetched' = fetched
            /\ \A i \in DOMAIN calls' : calls'[i].kind # "running"
       /\ pc[r] = "stopped" =>
            \/ /\ pc'[r] = "stopped"
               /\ UNCHANGED <<API_CALL_LOG, calls, fetched, all_articles,
                              judge_log, session_articles>>
            \/ /\ pc'[r] = "now"
               /\ searches' = searches + 1]_vars

C4_Witness ==
  /\ pc[1] = "stopped"
  /\ calls[Len(calls)].kind = "denied"
  /\ calls[Len(calls)].client = "guardian"
  /\ calls[Len(calls) - 1].kind = "returned"

Visited(key) ==
  \/ pub.pc = "done"
  \/ key[2] < pub.idx
  \/ key[2] = pub.idx /\ \E p \in 1..(pub.p - 1) : Platforms[p] = key[1]

\* C5: with real posting on, when the publish call of a selected draft fails,
\* every other selected draft still gets exactly one publish attempt.
C5_EveryDraftAttempted ==
  (pub.pc = "done" /\ pub.post_enabled) =>
    \A j \in PubKeys(pub.n) :
      pub.result[j] = "fail" =>
        \A i \in PubKeys(pub.n) \ {j} :
          pub.selected_posts[i] => pub.attempts[i] = 1

\* C6: a draft whose selected flag is false is never handed to a publisher
\* and never shown as a dry-run post.
C6_UnselectedNeverPublished ==
  \A k \in PubKeys(pub.n) :
    ~pub.selected_posts[k] =>
      /\ pub.attempts[k] = 0
      /\ pub.shown[k] = <<>>
      /\ pub.result[k] = "none"

C6_Witness ==
  /\ pub.pc = "done"
  /\ \E k \in PubKeys(pub.n) : ~pub.selected_posts[k]
  /\ \E k \in PubKeys(pub.n) : pub.attempts[k] = 1
  /\ \E k \in PubKeys(pub.n) : pub.selected_posts[k] /\ k[2] = 1

\* C7: in a dry run no publisher is called and every selected draft the loop
\* has passed was shown once, with its content, with its image iff it has
\* one, and with a preview result that is no failure.
C7_DryRun ==
  ~pub.post_enabled =>
    \A k \in PubKeys(pub.n) :
      /\ pub.attempts[k] = 0
      /\ (pub.selected_posts[k] /\ Visited(k)) =>
           /\ pub.shown[k] = <<[content |-> [article |-> k[2], platform |-> k[1]],
                                image |-> (pub.image[k] = "bytes")]>>
           /\ pub.result[k] = "preview"

C7_Witness ==
  /\ pub.pc = "done"
  /\ ~pub.post_enabled
  /\ \E k \in PubKeys(pub.n) : pub.selected_posts[k] /\ pub.image[k] = "bytes"
  /\ \E k \in PubKeys(pub.n) : pub.selected_posts[k] /\ pub.image[k] = ""
  /\ \A p \in 1..Len(Platforms) : pub.selected_posts[PostKey(p, 0)]

ValidScore(x) == x.t = "num" /\ 0 <= x.v /\ x.v <= 10

\* C8: each of the three scores is validated on its own: a key that is
\* missing, not a number or outside [0,1] is stored as 0 and the other keys
\* keep the judge's values, so every stored score lies in [0,1].
C8_PerKeyValidation ==
  \A r \in Runs : \A i \in DOMAIN judge_log[r] :
    judge_log[r][i].kind = "json" =>
      \A k \in Keys :
        /\ all_articles[r][i].scores[k] =
             IF ValidScore(judge_log[r][i].content[k])
             THEN judge_log[r][i].content[k].v ELSE 0
        /\ 0 <= all_articles[r][i].scores[k]
        /\ all_articles[r][i].scores[k] <= 10

Before(x, y) ==
  \/ Aggregate(x) > Aggregate(y)
  \/ Aggregate(x) = Aggregate(y) /\ x.id < y.id

\* C9: the ranked list holds min(TopN, total) articles of the input, in
\* descending aggregate order with ties in input order, and every article
\* left out comes after every article kept in that order.
C9_StableTopN ==
  \A r \in Runs :
    pc[r] = "done" =>
      LET A == all_articles[r]
          R == session_articles[r]
      IN /\ Len(R) = IF Len(A) < TopN THEN Len(A) ELSE TopN
         /\ \A i \in DOMAIN R : R[i].id \in DOMAIN A /\ R[i] = A[R[i].id]
         /\ \A i, j \in DOMAIN R : i < j => Before(R[i], R[j])
         /\ \A a \in DOMAIN A :
              (\A i \in DOMAIN R : R[i].id # a) =>
                \A i \in DOMAIN R : Before(R[i], A[a])

C9_Witness ==
  /\ pc[1] = "done"
  /\ Len(all_articles[1]) > TopN
  /\ \E i \in 1..(TopN - 1) :
       /\ Aggregate(session_articles[1][i]) = Aggregate(session_articles[1][i + 1])
       /\ session_articles[1][i].scores # session_articles[1][i + 1].scores
  /\ session_articles[1][1].id > TopN
  /\ Aggregate(session_articles[1][1]) = 83
  /\ \E a \in DOMAIN all_articles[1] :
       /\ \A i \in DOMAIN session_articles[1] : session_articles[1][i].id # a
       /\ Aggregate(all_articles[1][a]) = Aggregate(session_articles[1][TopN])

\* C10: no failure of a fetch, a judge call or a publish call ends the run:
\* a run that stopped short of its end was stopped by the rate limiter.
C10_OnlyDenialStops ==
  \A r \in Runs : pc[r] # "crashed"

====
